---- MODULE Spec2Model ----
(***************************************************************************)
(* Model of src/src/port-scanner.py: the concurrent scan engine.           *)
(*                                                                         *)
(* main() reads the configuration and the command line and calls one of    *)
(* scan_port_range, scan_ports, scan_all_ports.  A scan function creates a *)
(* ThreadPoolExecutor, submits one scan_port task per port, then collects  *)
(* the futures in submission order on the main thread.  scan_port is the   *)
(* retry loop around one TCP connect attempt.  A KeyboardInterrupt on the  *)
(* main thread unwinds the scan function through the executor's __exit__   *)
(* (shutdown(wait=True)) to main's handler.                                *)
(*                                                                         *)
(* The network is the environment: each connect attempt ends in one of     *)
(* ConnectOutcomes, chosen nondeterministically; socket creation may fail. *)
(* The single-port branch of main (scan_port on the main thread, no pool,  *)
(* no report) is not part of the model: the command lines drawn in Init    *)
(* never set --single.                                                     *)
(***************************************************************************)
EXTENDS Integers, Sequences, FiniteSets

\* ------------------------------------------------------------------ bounds

\* Highest port number of the model.  scan_all_ports scans 1..65535; the
\* model scales that range to 1..MaxPort.
MaxPort == 2

\* Largest max_retries value a configuration of the model holds.
MaxRetries == 2

\* ------------------------------------------------------- program constants

\* max_workers of every pool: the default of scan_port_range's `workers`
\* parameter (never passed by main) and the literal in scan_ports and
\* scan_all_ports.
DEFAULT_WORKERS == 10

\* parse_args: the value a non-positive --timeout is replaced by.
DEFAULT_TIMEOUT == 1

\* ------------------------------------------------------------------ inputs

Ports == 1..MaxPort

\* config.json after load_config: the three values main reads.  A timeout of
\* 0 or -1 is a value the file may hold: main does not validate it.
Configs ==
    [timeout : {-1, 0, 1}, max_retries : 0..MaxRetries, workers : {1, DEFAULT_WORKERS}]

\* Duplicate-free port lists (a ScanTarget's ports are unique), in any order.
PortLists ==
    {s \in UNION {[1..n -> Ports] : n \in 1..MaxPort} :
        \A i, j \in DOMAIN s : i # j => s[i] # s[j]}

\* The command line: exactly one of --range, --all, --list, or none of them;
\* --timeout and --workers either at their defaults or given as (0, 1).
\* None of a list-valued option is <<>>.
RawOptions == {[timeout |-> 1, workers |-> 10], [timeout |-> 0, workers |-> 1]}

RawTargets ==
    {[range |-> <<s, e>>, all |-> FALSE, list |-> <<>>] : s \in Ports, e \in Ports}
        \cup {[range |-> <<>>, all |-> TRUE, list |-> <<>>]}
        \cup {[range |-> <<>>, all |-> FALSE, list |-> l] : l \in PortLists}
        \cup {[range |-> <<>>, all |-> FALSE, list |-> <<>>]}

Argvs ==
    {[range |-> t.range, all |-> t.all, list |-> t.list,
      timeout |-> o.timeout, workers |-> o.workers] : t \in RawTargets, o \in RawOptions}

\* A call of a scan function: the function and its port arguments.
NoCall == [fn |-> "none", start |-> 0, end |-> 0, ports |-> <<>>]

\* The one call main cannot make: scan_ports with an empty list (main's
\* `elif args.list` is false for it).
DirectCalls == {[fn |-> "scan_ports", start |-> 0, end |-> 0, ports |-> <<>>]}

\* ----------------------------------------------------------------- helpers

\* parse_args: a non-positive timeout is replaced by the default.
parse_args(argv) ==
    [argv EXCEPT !.timeout = IF argv.timeout <= 0 THEN DEFAULT_TIMEOUT ELSE argv.timeout]

\* main's if/elif chain over the parsed arguments (truthiness of each option).
MainCall(a) ==
    IF a.range # <<>>
    THEN [fn |-> "scan_port_range", start |-> a.range[1], end |-> a.range[2], ports |-> <<>>]
    ELSE IF a.all
    THEN [fn |-> "scan_all_ports", start |-> 0, end |-> 0, ports |-> <<>>]
    ELSE IF a.list # <<>>
    THEN [fn |-> "scan_ports", start |-> 0, end |-> 0, ports |-> a.list]
    ELSE NoCall

\* range(start, end + 1) as a sequence.
PortRange(start, end) == [i \in 1..(end - start + 1) |-> start + i - 1]

\* Mutant of RangeRejected: the guard is missing.
RangeNeverRejected(start, end) == FALSE

\* scan_port_range's guard: start port greater than end port.
RangeRejected(start, end) == start > end

\* scan_ports' guard: `not ports`.
ListRejected(ports) == ports = <<>>

\* The state of one submitted scan_port call (one future).
\*   st       unsubmitted | queued | running | connecting | sleeping | done
\*   retries  scan_port's local `retries`
\*   attempts connect_ex calls made
\*   sleeps   time.sleep(1) calls made
\*   opens    sockets created; closes: sock.close() calls on a socket
\*   sock     the local `sock`: unbound | open | closed
\*   last     how the last iteration ended (none before the first)
\*   result   the future's result: none | True | False | raised
NewTask ==
    [st |-> "unsubmitted", retries |-> 0, attempts |-> 0, sleeps |-> 0,
     opens |-> 0, closes |-> 0, sock |-> "unbound", last |-> "none", result |-> "none"]

\* How one connect_ex call can end: returns 0, returns an error code, or
\* raises socket.timeout, socket.gaierror or another socket.error.
ConnectOutcomes == {"connected", "refused", "timeout", "gaierror", "error"}

\* The report a scan function returns; NoReport before it returns.
NoReport == [valid |-> FALSE, ports |-> <<>>]

Returned(open) == [valid |-> TRUE, ports |-> open]

VARIABLES
    config,       \* the loaded configuration
    argv,         \* the command line
    args,         \* parse_args' result
    call,         \* the scan function main calls and its arguments
    pc,           \* position of the main thread
    poolCreated,  \* a ThreadPoolExecutor was constructed
    ports,        \* the ports of the futures dict, in submission order
    tasks,        \* one record per port of `ports`
    submitted,    \* futures submitted so far
    collected,    \* futures the collecting loop has passed
    open_ports,   \* the scan function's local open_ports
    pbar,         \* the progress bar's count
    report,       \* the value the scan function returned
    interrupted   \* a KeyboardInterrupt was raised on the main thread

vars ==
    <<config, argv, args, call, pc, poolCreated, ports, tasks, submitted,
      collected, open_ports, pbar, report, interrupted>>

\* main: timeout and max_retries come from the configuration, not from args.
timeout == config.timeout

max_retries == config.max_retries

\* Mutant of max_workers: the pool is sized from the configuration, one short.
WorkersOffByOne == config.workers - 1

\* max_workers of the pool the scan function creates.
max_workers == DEFAULT_WORKERS

TaskIds == DOMAIN tasks

\* Tasks a worker thread is executing.
Active == {i \in TaskIds : tasks[i].st \in {"running", "connecting", "sleeping"}}

\* Tasks with a connect attempt in progress.
InFlight == {i \in TaskIds : tasks[i].st = "connecting"}

\* ----------------------------------------------------------- Init and main

Init ==
    /\ config \in Configs
    /\ \/ /\ argv \in Argvs
          /\ pc = "main"
          /\ call = NoCall
       \/ /\ argv = [range |-> <<>>, all |-> FALSE, list |-> <<>>,
                     timeout |-> 1, workers |-> 10]
          /\ pc = "call"
          /\ call \in DirectCalls
    /\ args = argv
    /\ poolCreated = FALSE
    /\ ports = <<>>
    /\ tasks = <<>>
    /\ submitted = 0
    /\ collected = 0
    /\ open_ports = <<>>
    /\ pbar = 0
    /\ report = NoReport
    /\ interrupted = FALSE

\* main: parse the arguments and choose the scan function.
Main ==
    /\ pc = "main"
    /\ args' = parse_args(argv)
    /\ call' = MainCall(args')
    /\ pc' = IF call'.fn = "none" THEN "nooption" ELSE "call"
    /\ UNCHANGED <<config, argv, poolCreated, ports, tasks, submitted, collected,
                   open_ports, pbar, report, interrupted>>

\* Entry of a scan function up to the creation of the pool and the bar.
StartScan(target) ==
    /\ poolCreated' = TRUE
    /\ ports' = target
    /\ tasks' = [i \in 1..Len(target) |-> NewTask]
    /\ pc' = IF Len(target) = 0 THEN "collect" ELSE "submit"
    /\ UNCHANGED report

\* The early return of a scan function on a rejected target.
Reject ==
    /\ pc' = "returned"
    /\ report' = Returned(<<>>)
    /\ UNCHANGED <<poolCreated, ports, tasks>>

CallScanPortRange ==
    /\ pc = "call"
    /\ call.fn = "scan_port_range"
    /\ IF RangeRejected(call.start, call.end)
       THEN Reject
       ELSE StartScan(PortRange(call.start, call.end))
    /\ UNCHANGED <<config, argv, args, call, submitted, collected, open_ports,
                   pbar, interrupted>>

CallScanPorts ==
    /\ pc = "call"
    /\ call.fn = "scan_ports"
    /\ IF ListRejected(call.ports)
       THEN Reject
       ELSE StartScan(call.ports)
    /\ UNCHANGED <<config, argv, args, call, submitted, collected, open_ports,
                   pbar, interrupted>>

CallScanAllPorts ==
    /\ pc = "call"
    /\ call.fn = "scan_all_ports"
    /\ StartScan(PortRange(1, MaxPort))
    /\ UNCHANGED <<config, argv, args, call, submitted, collected, open_ports,
                   pbar, interrupted>>

\* ------------------------------------------------------------- the workers

\* executor.submit for the next port of the comprehension.
Submit ==
    /\ pc = "submit"
    /\ submitted < Len(ports)
    /\ tasks' = [tasks EXCEPT ![submitted + 1].st = "queued"]
    /\ submitted' = submitted + 1
    /\ pc' = IF submitted' = Len(ports) THEN "collect" ELSE "submit"
    /\ UNCHANGED <<config, argv, args, call, poolCreated, ports, collected,
                   open_ports, pbar, report, interrupted>>

\* Mutant of IsQueueHead: a worker may take any queued work item.
AnyQueued(i) == TRUE

\* The executor's work queue is first in, first out: task i is its head when
\* no earlier-submitted task is still queued.
IsQueueHead(i) == \A j \in TaskIds : j < i => tasks[j].st # "queued"

\* A worker thread takes the oldest queued work item.  The queue is drained
\* also while the executor shuts down (shutdown(wait=True) cancels nothing).
WorkerStart(i) ==
    /\ pc \in {"submit", "collect", "shutdown"}
    /\ tasks[i].st = "queued"
    /\ IsQueueHead(i)
    /\ Cardinality(Active) < max_workers
    /\ tasks' = [tasks EXCEPT ![i].st = "running"]
    /\ UNCHANGED <<config, argv, args, call, pc, poolCreated, ports, submitted,
                   collected, open_ports, pbar, report, interrupted>>

\* Mutant of LoopContinues: the loop test is off by one.
LoopContinuesOffByOne(t) == t.retries <= max_retries

\* `while retries < max_retries`
LoopContinues(t) == t.retries < max_retries

\* `while retries < max_retries` is false: log the failure, return False.
Exhausted(i) ==
    /\ tasks[i].st = "running"
    /\ ~LoopContinues(tasks[i])
    /\ tasks' = [tasks EXCEPT ![i].st = "done", ![i].result = "False"]
    /\ UNCHANGED <<config, argv, args, call, pc, poolCreated, ports, submitted,
                   collected, open_ports, pbar, report, interrupted>>

\* socket.socket(...) succeeds; settimeout(timeout) raises ValueError for a
\* negative timeout (no except clause matches: finally closes, the call raises).
OpenSocket(i) ==
    /\ tasks[i].st = "running"
    /\ LoopContinues(tasks[i])
    /\ tasks' =
         IF timeout < 0
         THEN [tasks EXCEPT ![i].opens = @ + 1, ![i].closes = @ + 1,
                            ![i].sock = "closed", ![i].last = "valueerror",
                            ![i].st = "done", ![i].result = "raised"]
         ELSE [tasks EXCEPT ![i].opens = @ + 1, ![i].sock = "open",
                            ![i].attempts = @ + 1, ![i].st = "connecting"]
    /\ UNCHANGED <<config, argv, args, call, pc, poolCreated, ports, submitted,
                   collected, open_ports, pbar, report, interrupted>>

\* socket.socket(...) raises OSError: `except socket.error` returns False, but
\* finally runs sock.close() on whatever `sock` is bound to: nothing in the
\* first iteration (UnboundLocalError replaces the return), the previous
\* iteration's closed socket afterwards.
SocketFails(i) ==
    /\ tasks[i].st = "running"
    /\ LoopContinues(tasks[i])
    /\ tasks' =
         IF tasks[i].sock = "unbound"
         THEN [tasks EXCEPT ![i].last = "sockfail", ![i].st = "done",
                            ![i].result = "raised"]
         ELSE [tasks EXCEPT ![i].last = "sockfail", ![i].closes = @ + 1,
                            ![i].st = "done", ![i].result = "False"]
    /\ UNCHANGED <<config, argv, args, call, pc, poolCreated, ports, submitted,
                   collected, open_ports, pbar, report, interrupted>>

\* Mutant of IsRetried: a refused connect is retried like a timeout.
IsRetriedOrRefused(o) == o \in {"timeout", "refused"}

\* Mutant of IsRetried: a resolution failure is retried like a timeout.
IsRetriedOrResolution(o) == o \in {"timeout", "gaierror"}

\* `except socket.timeout`: the one outcome scan_port retries.
IsRetried(o) == o = "timeout"

\* status = result == 0.
Status(o) == IF o = "connected" THEN "True" ELSE "False"

\* The outcomes connect_ex can have under the socket's timeout: a socket with
\* timeout 0 is non-blocking and never raises socket.timeout.
Possible(o) == o = "timeout" => timeout > 0

\* connect_ex ends with outcome o.  A timeout increments retries and sleeps
\* (the socket is closed by finally only after the sleep); every other
\* outcome returns, and finally closes the socket.
Connect(i, o) ==
    /\ tasks[i].st = "connecting"
    /\ Possible(o)
    /\ tasks' =
         IF IsRetried(o)
         THEN [tasks EXCEPT ![i].last = o, ![i].retries = @ + 1,
                            ![i].sleeps = @ + 1, ![i].st = "sleeping"]
         ELSE [tasks EXCEPT ![i].last = o, ![i].closes = @ + 1,
                            ![i].sock = "closed", ![i].st = "done",
                            ![i].result = Status(o)]
    /\ UNCHANGED <<config, argv, args, call, pc, poolCreated, ports, submitted,
                   collected, open_ports, pbar, report, interrupted>>

\* time.sleep(1) ends: finally closes the socket, the loop tests again.
Wake(i) ==
    /\ tasks[i].st = "sleeping"
    /\ tasks' = [tasks EXCEPT ![i].closes = @ + 1, ![i].sock = "closed",
                              ![i].st = "running"]
    /\ UNCHANGED <<config, argv, args, call, pc, poolCreated, ports, submitted,
                   collected, open_ports, pbar, report, interrupted>>

\* ---------------------------------------------------- the collecting thread

\* Mutant of FutureDone: the collector does not wait for the task to end.
FutureSubmitted(t) == t.st # "unsubmitted"

\* Mutant of FutureDone: the collector waits only for the task to start.
FutureStarted(t) == t.st \notin {"unsubmitted", "queued"}

\* Mutant of ResultTruthy: a port whose scan raised is appended too.
ResultNotFalse(t) == t.result # "False"

\* Mutant of ResultTruthy: the port is appended whatever the result.
ResultIgnored(t) == TRUE

\* Mutant of Caught: the except clause matches nothing scan_port raises.
CaughtNothing(t) == FALSE

\* Mutant of AppendPort: the port is inserted at the front.
PrependPort(open, port) == <<port>> \o open

\* future.result() returns or raises only once the task is done.
FutureDone(t) == t.st = "done"

\* `if future.result():`
ResultTruthy(t) == t.result = "True"

\* `except Exception as e`: every exception scan_port can raise is caught.
Caught(t) == t.result = "raised"

\* open_ports.append(port)
AppendPort(open, port) == Append(open, port)

\* Mutant of BarAfter: the bar is updated only when result() did not raise.
BarAfterUnlessRaised(bar, t) == IF t.result = "raised" THEN bar ELSE bar + 1

\* Mutant of BarAfter: an update of the bar is lost when the port is open.
BarAfterLosingUpdate(bar, t) == IF t.result = "True" THEN bar ELSE bar + 1

\* pbar.update(1), after the try statement: once per future, raised or not.
BarAfter(bar, t) == bar + 1

\* One iteration of `for future in futures`: wait for the future, append the
\* port if the result is true, log an exception, update the bar.
Collect ==
    /\ pc = "collect"
    /\ collected < Len(ports)
    /\ LET i == collected + 1
           t == tasks[i]
       IN  /\ FutureDone(t)
           /\ IF t.result = "raised" /\ ~Caught(t)
              THEN /\ pc' = "crashed"
                   /\ UNCHANGED <<collected, open_ports, pbar>>
              ELSE /\ open_ports' = IF ResultTruthy(t)
                                    THEN AppendPort(open_ports, ports[i])
                                    ELSE open_ports
                   /\ pbar' = BarAfter(pbar, t)
                   /\ collected' = i
                   /\ pc' = pc
    /\ UNCHANGED <<config, argv, args, call, poolCreated, ports, tasks, submitted,
                   report, interrupted>>

\* The loop is over: both with-blocks exit, the summary is printed, the
\* function returns open_ports.
Finish ==
    /\ pc = "collect"
    /\ collected = Len(ports)
    /\ pc' = "returned"
    /\ report' = Returned(open_ports)
    /\ UNCHANGED <<config, argv, args, call, poolCreated, ports, tasks, submitted,
                   collected, open_ports, pbar, interrupted>>

\* KeyboardInterrupt on the main thread inside the with-blocks: the loop is
\* left and the executor's __exit__ waits for the pool.
Interrupt ==
    /\ pc \in {"submit", "collect"}
    /\ pc' = "shutdown"
    /\ interrupted' = TRUE
    /\ UNCHANGED <<config, argv, args, call, poolCreated, ports, tasks, submitted,
                   collected, open_ports, pbar, report>>

\* Mutant of InterruptedReport: the handler hands out the ports collected.
PartialReport(open) == [valid |-> TRUE, ports |-> open]

\* What main's KeyboardInterrupt handler keeps of the scan: a message only.
InterruptedReport(open) == NoReport

\* shutdown(wait=True) returns once every submitted task is done; the
\* exception reaches main's handler.
ShutdownDone ==
    /\ pc = "shutdown"
    /\ \A i \in TaskIds : tasks[i].st \in {"unsubmitted", "done"}
    /\ pc' = "interrupted"
    /\ report' = InterruptedReport(open_ports)
    /\ UNCHANGED <<config, argv, args, call, poolCreated, ports, tasks, submitted,
                   collected, open_ports, pbar, interrupted>>

Next ==
    \/ Main
    \/ CallScanPortRange
    \/ CallScanPorts
    \/ CallScanAllPorts
    \/ Submit
    \/ \E i \in TaskIds : WorkerStart(i)
    \/ \E i \in TaskIds : Exhausted(i)
    \/ \E i \in TaskIds : OpenSocket(i)
    \/ \E i \in TaskIds : SocketFails(i)
    \/ \E i \in TaskIds, o \in ConnectOutcomes : Connect(i, o)
    \/ \E i \in TaskIds : Wake(i)
    \/ Collect
    \/ Finish
    \/ Interrupt
    \/ ShutdownDone

Spec == Init /\ [][Next]_vars

\* Every step but the KeyboardInterrupt, which nothing forces to happen.
Progress ==
    \/ Main
    \/ CallScanPortRange
    \/ CallScanPorts
    \/ CallScanAllPorts
    \/ Submit
    \/ \E i \in TaskIds : WorkerStart(i)
    \/ \E i \in TaskIds : Exhausted(i)
    \/ \E i \in TaskIds : OpenSocket(i)
    \/ \E i \in TaskIds : SocketFails(i)
    \/ \E i \in TaskIds, o \in ConnectOutcomes : Connect(i, o)
    \/ \E i \in TaskIds : Wake(i)
    \/ Collect
    \/ Finish
    \/ ShutdownDone

\* The runs the termination claim is about: a positive timeout in the
\* configuration (every connect outcome can happen), and one value for each
\* of the inputs that never reach the scan (--timeout, --workers and the
\* configuration's workers).
LiveInit ==
    /\ Init
    /\ config.timeout = 1
    /\ config.workers = 1
    /\ argv.timeout = 1
    /\ argv.workers = 10

\* The scan under fair scheduling: every connect attempt and every sleep
\* ends, and a thread that can take a step eventually takes one.
FairSpec == LiveInit /\ [][Next]_vars /\ WF_vars(Progress)


\* ------------------------------------------------------------------ claims

\* The entries of a sequence.
Range(s) == {s[k] : k \in DOMAIN s}

\* How often port p occurs in sequence s.
Count(s, p) == Cardinality({k \in DOMAIN s : s[k] = p})

\* A scan function has returned the report of an accepted target.
ScanReturned == pc = "returned" /\ poolCreated

StrictlyAscending(s) == \A k, l \in DOMAIN s : k < l => s[k] < s[l]

\* The position of port p in the target list (ports are unique).
Position(p) == CHOOSE i \in DOMAIN ports : ports[i] = p

C3_InFlightWithinConfigured ==
    /\ Cardinality(InFlight) <= config.workers
    /\ Cardinality(InFlight) <= argv.workers

\* C4: when a scan function returns its report every port of the target has a
\* terminal outcome: none is unsubmitted, queued, running, being attempted or
\* asleep in a backoff.
C4_ReturnAfterAllTerminal ==
    ScanReturned =>
        /\ DOMAIN tasks = DOMAIN ports
        /\ \A i \in TaskIds : tasks[i].st = "done" /\ tasks[i].result # "none"

\* C4 witness: a scan of two ports returned after one of them slept in a
\* backoff and was attempted again.
C4_Witness ==
    /\ ScanReturned
    /\ Len(ports) >= 2
    /\ \E i \in TaskIds : tasks[i].sleeps >= 1 /\ tasks[i].attempts >= 2

\* C5 (as claimed): after a KeyboardInterrupt no port that a worker had not yet
\* taken is started: a queued port stays queued.
C5_NoStartAfterInterrupt ==
    [][interrupted =>
          \A i \in TaskIds : tasks[i].st = "queued" => tasks'[i].st = "queued"]_vars

InvalidTarget ==
    \/ call.fn = "scan_port_range" /\ call.start > call.end
    \/ call.fn = "scan_ports" /\ call.ports = <<>>

\* C8 (as claimed): on invalid input, a non-positive timeout included, no pool
\* is created and no socket is opened.
C8_InvalidInputRejected ==
    (InvalidTarget \/ config.timeout <= 0 \/ argv.timeout <= 0) =>
        /\ ~poolCreated
        /\ \A i \in TaskIds : tasks[i].opens = 0

\* C8 (amended): start > end and an empty port list are rejected before
\* scheduling: no pool, no task, no socket, and the function returns the empty
\* list.  (A non-positive timeout is not rejected.)
C8_InvalidTargetRejected ==
    InvalidTarget =>
        /\ ~poolCreated
        /\ tasks = <<>>
        /\ submitted = 0
        /\ pc \in {"call", "returned"}
        /\ pc = "returned" => report = Returned(<<>>)

\* C8 witness: scan_port_range returned on start > end.
C8_Witness ==
    /\ pc = "returned"
    /\ call.fn = "scan_port_range"
    /\ call.start > call.end
    /\ report = Returned(<<>>)

\* The scan of port i failed: scan_port raised, or returned False on an error.
Failed(i) ==
    \/ tasks[i].result = "raised"
    \/ tasks[i].st = "done" /\ tasks[i].last \in {"error", "gaierror", "sockfail"}

\* C9: a failure of one port's scan never leaves the scan function: the
\* function does not crash, the failed port is not reported open, and the
\* function returns only with every port scanned and collected.
C9_PortFailureContained ==
    /\ pc # "crashed"
    /\ \A i \in TaskIds : Failed(i) => ports[i] \notin Range(open_ports)
    /\ ScanReturned =>
          /\ collected = Len(ports)
          /\ pbar = Len(ports)
          /\ \A i \in TaskIds : tasks[i].st = "done"
          /\ \A i \in TaskIds : Failed(i) => ports[i] \notin Range(report.ports)

\* C9 witness: a scan returned in which one port's scan_port raised and
\* another port was found open and reported.
C9_Witness ==
    /\ ScanReturned
    /\ \E i, j \in TaskIds :
          /\ tasks[i].result = "raised"
          /\ tasks[j].result = "True"
          /\ report.ports = <<ports[j]>>

\* C10: a refused connect settles the port: it is the port's last attempt,
\* the result is False, and no backoff follows it; without an earlier timeout
\* that is exactly one attempt and no sleep.
C10_RefusedNeverRetried ==
    \A i \in TaskIds :
        tasks[i].last = "refused" =>
            /\ tasks[i].st = "done"
            /\ tasks[i].result = "False"
            /\ tasks[i].attempts = tasks[i].retries + 1
            /\ tasks[i].sleeps = tasks[i].retries
            /\ tasks[i].retries = 0 => (tasks[i].attempts = 1 /\ tasks[i].sleeps = 0)

\* C10 witness: with max_retries = 2 a port was refused on its first attempt.
C10_Witness ==
    /\ max_retries >= 2
    /\ \E i \in TaskIds :
          /\ tasks[i].last = "refused"
          /\ tasks[i].attempts = 1
          /\ tasks[i].st = "done"

\* C11: a port whose attempts all time out is attempted exactly max_retries
\* times (max_retries >= 1) and ends with result False: it is not settled
\* while its timeouts are below max_retries and never attempted beyond.
C11_TimeoutAttemptsEqualMaxRetries ==
    \A i \in TaskIds :
        /\ tasks[i].retries <= max_retries
        /\ tasks[i].attempts <= max_retries
        /\ (tasks[i].st = "done" /\ tasks[i].last = "timeout") =>
              /\ tasks[i].retries = max_retries
              /\ tasks[i].attempts = max_retries
              /\ tasks[i].result = "False"
        /\ (tasks[i].st = "running" /\ tasks[i].retries = max_retries) =>
              ~ENABLED OpenSocket(i)

\* C11 witness: with max_retries = 2 a port ended after two attempts that
\* both timed out.
C11_Witness ==
    /\ max_retries = 2
    /\ \E i \in TaskIds :
          /\ tasks[i].st = "done"
          /\ tasks[i].last = "timeout"
          /\ tasks[i].attempts = 2
          /\ tasks[i].retries = 2

\* C12 (as claimed): a port that never responds sleeps one time less than it
\* is attempted: no backoff follows the final attempt.
C12_NoSleepAfterFinalAttempt ==
    \A i \in TaskIds :
        (tasks[i].st = "done" /\ tasks[i].last = "timeout"
            /\ tasks[i].attempts = tasks[i].retries) =>
                tasks[i].sleeps = tasks[i].attempts - 1

\* C13 (as claimed): every port outcome comes from at least one connect
\* attempt, also with max_retries = 0 (stated for the runs in which the
\* timeout is positive and socket creation does not fail).
C13_OutcomeNeedsAttempt ==
    \A i \in TaskIds :
        (tasks[i].st = "done" /\ timeout > 0 /\ tasks[i].last # "sockfail") =>
            tasks[i].attempts >= 1

\* C14 (as claimed): every socket opened is closed exactly once and close is
\* never applied to a socket the attempt did not open: no more closes than
\* opens, at most one socket open, none left open when scan_port ends.
C14_SocketClosedExactlyOnce ==
    \A i \in TaskIds :
        /\ tasks[i].closes <= tasks[i].opens
        /\ tasks[i].opens - tasks[i].closes <= 1
        /\ tasks[i].st = "done" =>
              (tasks[i].closes = tasks[i].opens /\ tasks[i].sock # "open")

RECURSIVE OpenAmong(_)
OpenAmong(n) ==
    IF n = 0 THEN <<>>
    ELSE IF tasks[n].result = "True" THEN Append(OpenAmong(n - 1), ports[n])
    ELSE OpenAmong(n - 1)

\* C16: no update of the counter or of the collection is lost or torn: the
\* counter equals the number of futures collected, the collection has one
\* entry per collected open port, and both are written only by a step of the
\* collecting loop on the main thread, never by a worker step.
C16_NoLostUpdate ==
    /\ [](pbar = collected)
    /\ [](Len(open_ports) =
             Cardinality({i \in 1..collected : tasks[i].result = "True"}))
    /\ [][(pbar' # pbar \/ open_ports' # open_ports) =>
             /\ pc = "collect"
             /\ tasks' = tasks
             /\ collected' = collected + 1
             /\ pbar' = pbar + 1
             /\ Len(open_ports') \in {Len(open_ports), Len(open_ports) + 1}]_vars

\* C16 witness: the bar and the collection were updated for the first port
\* while a worker was still connecting to the second.
C16_Witness ==
    /\ pbar = 1
    /\ Len(open_ports) = 1
    /\ Len(ports) = 2
    /\ tasks[2].st = "connecting"

\* A worker has taken task i off the queue.
Dispatched(i) == tasks[i].st \notin {"unsubmitted", "queued"}

\* C17 (as claimed): a port never starts its first connect attempt before a
\* port that precedes it in the list has started its own (or has ended).
C17_FirstAttemptsInListOrder ==
    \A i, j \in TaskIds :
        (i < j /\ tasks[j].attempts >= 1) =>
            (tasks[i].attempts >= 1 \/ tasks[i].st = "done")

\* C17 (amended): ports are submitted and handed to the workers in list
\* order: a port is never submitted or taken by a worker before every port
\* that precedes it in the list.
C17_DispatchInListOrder ==
    \A i, j \in TaskIds :
        i < j =>
            /\ tasks[j].st # "unsubmitted" => tasks[i].st # "unsubmitted"
            /\ Dispatched(j) => Dispatched(i)

\* C17 witness: the second port is done while the first, dispatched before
\* it, is still waiting in a backoff: completion order is not list order.
C17_Witness ==
    /\ Len(ports) = 2
    /\ tasks[2].st = "done"
    /\ tasks[1].st = "sleeping"

\* C18: the returned list is exactly the subsequence of the submitted ports
\* whose scan_port returned True, in submission order; while collecting,
\* open_ports is that subsequence of the futures collected so far.
C18_ReportIsOpenSubsequence ==
    /\ pc \in {"collect", "shutdown", "interrupted"} => open_ports = OpenAmong(collected)
    /\ ScanReturned => report.ports = OpenAmong(Len(ports))

\* C18 witness: the first port's scan raised, the second returned True, and
\* the list returned holds the second port only.
C18_Witness ==
    /\ ScanReturned
    /\ Len(ports) = 2
    /\ tasks[1].result = "raised"
    /\ tasks[2].result = "True"
    /\ report.ports = <<ports[2]>>

\* C19: when the progress count is k the first k submitted ports are done;
\* the count never exceeds the number of done ports.
C19_ProgressBehindCompletion ==
    /\ pbar <= Len(ports)
    /\ \A i \in 1..pbar : tasks[i].st = "done"
    /\ pbar <= Cardinality({i \in TaskIds : tasks[i].st = "done"})

\* C19 witness: the count is 0 with the second port done, because the first
\* port is still retrying.
C19_Witness ==
    /\ pbar = 0
    /\ pc = "collect"
    /\ Len(ports) = 2
    /\ tasks[2].st = "done"
    /\ tasks[1].st = "sleeping"
    /\ tasks[1].retries >= 1

\* C20: under fair scheduling a scan that has started ends: the scan function
\* returns, or main ends in its interrupt handler.
C20_ScanTerminates ==
    poolCreated ~> (pc = "returned" \/ pc = "interrupted")

\* C20 witness: a scan returned after one of its ports used up all of its
\* max_retries = 2 attempts.
C20_Witness ==
    /\ ScanReturned
    /\ max_retries = 2
    /\ \E i \in TaskIds : tasks[i].retries = 2 /\ tasks[i].st = "done"

====
